---- MODULE Spec2Model ----
(***************************************************************************)
(* pyloans.Loan: the amortisation schedules of one instalment loan and the *)
(* additional-payment state machine (update_addl_pmts, prepay_fully,       *)
(* reset_addl_pmts) of src/src/pyloans/Loan.py.                            *)
(*                                                                         *)
(* Money is exact: every amount is an integer number of ticks, one tick    *)
(* being 1/scale currency units, where scale is the denominator of the     *)
(* per-period rate raised to the period count.  The loans of LoanInputs    *)
(* are chosen so that the annuity payment and every interest amount is a   *)
(* whole number of ticks (ExactTerms, ExactInterest); binary floating      *)
(* point rounding of the Python code is not modelled.  The 'dates' column  *)
(* of the cashflow frames depends on the terms only and is left out.       *)
(***************************************************************************)
EXTENDS Integers, Sequences, FiniteSets, TLC

VARIABLES
    terms,          \* the constructor's loan terms (never reassigned)
    addl_pmts,      \* self.addl_pmts: dict period -> amount
    fully_prepaid,  \* self.fully_prepaid: 0 or 1
    original_cfs,   \* self.original_cfs: frame, index 0..periods-1
    updated_cfs,    \* self.updated_cfs: frame, index 0..periods-1
    lastCall,       \* the method called last ("__init__" after construction)
    arg,            \* the argument that call read (NoArg when it read none)
    raised,         \* the exception that call raised, or "none"
    fresh,          \* a loan constructed with the same terms and no
                    \* additional payments, given the calls made since the
                    \* last reset_addl_pmts (compared with the loan itself)
    fresh_raised,   \* what the last call raised on the fresh loan
    was_reset       \* TRUE once reset_addl_pmts has been called

vars == <<terms, addl_pmts, fully_prepaid, original_cfs, updated_cfs,
          lastCall, arg, raised, fresh, fresh_raised, was_reset>>

(***************************************************************************)
(* Bounds of the exploration.                                              *)
(***************************************************************************)
\* largest single amount, in currency units, held for one period of the map
MaxAmt == 2
\* largest number of periods the map holds through construction and updates
MaxKeys == 2

(***************************************************************************)
(* Arithmetic helpers.                                                     *)
(***************************************************************************)
Max(a, b) == IF a >= b THEN a ELSE b

Min(a, b) == IF a <= b THEN a ELSE b

RECURSIVE Pow(_, _)
Pow(b, e) == IF e = 0 THEN 1 ELSE b * Pow(b, e - 1)

RECURSIVE Gcd(_, _)
Gcd(a, b) == IF b = 0 THEN a ELSE Gcd(b, a % b)

\* math.ceil(a / b) for a >= 0, b > 0
Ceil(a, b) == (a + b - 1) \div b

EmptyDict == [k \in {} |-> 0]

\* dict.get(k, 0.0)
Get(d, k) == IF k \in DOMAIN d THEN d[k] ELSE 0

NoArg == [kind |-> "none"]

(***************************************************************************)
(* Loan terms and the attributes __init__ derives from them.               *)
(***************************************************************************)
\* Loan.period_to_months, each value as <<numerator, denominator>>
period_to_months ==
    ("W" :> <<7, 30>>) @@ ("2W" :> <<14, 30>>) @@ ("M" :> <<1, 1>>) @@
    ("BM" :> <<2, 1>>) @@ ("Q" :> <<3, 1>>) @@ ("H" :> <<6, 1>>) @@
    ("Y" :> <<12, 1>>)

\* The constructor inputs explored: loan_amt in currency units,
\* interest_rate = rate_num / rate_den, fees_pct in hundredths.  Annual at
\* 100 % (rate 1 per period, 2 periods), semi-annual at 100 % (rate 1/2 per
\* period, 7 months = 2 periods), monthly at 0 % (3 periods).
LoanInputs ==
    { [loan_amt |-> 3, rate_num |-> 1, rate_den |-> 1, term_in_months |-> 24,
       freq |-> "Y", fees_pct |-> 0],
      [loan_amt |-> 10, rate_num |-> 1, rate_den |-> 1, term_in_months |-> 7,
       freq |-> "H", fees_pct |-> 5],
      [loan_amt |-> 6, rate_num |-> 0, rate_den |-> 1, term_in_months |-> 3,
       freq |-> "M", fees_pct |-> 10] }

\* self._periods (lines 199-201)
periods(in) ==
    LET ptm == period_to_months[in.freq]
    IN  Ceil(in.term_in_months * ptm[2], ptm[1])

\* self._period_interest_rate (lines 202-203) as <<numerator, denominator>>
\* in lowest terms
period_interest_rate(in) ==
    LET n == in.rate_num * period_to_months[in.freq][1]
        d == in.rate_den * period_to_months[in.freq][2] * 12
    IN  <<n \div Gcd(n, d), d \div Gcd(n, d)>>

\* -npf.pmt(rate, nper, pv) with rate = rn / rd: payments at period end, no
\* future value; <<numerator, denominator>>
npf_pmt(rn, rd, nper, pv) ==
    IF rn = 0 THEN <<pv, nper>>
    ELSE <<pv * rn * Pow(rn + rd, nper),
           rd * (Pow(rn + rd, nper) - Pow(rd, nper))>>

\* The attributes of the object that never change after __init__ (lines
\* 188-207), money in ticks: `scale` ticks make one currency unit.
attributes(in) ==
    LET r == period_interest_rate(in)
        n == periods(in)
        scale == Pow(r[2], n)
        p == npf_pmt(r[1], r[2], n, in.loan_amt * scale)
    IN  [loan_amt |-> in.loan_amt * scale,
         interest_rate |-> <<in.rate_num, in.rate_den>>,
         term_in_months |-> in.term_in_months,
         freq |-> in.freq,
         fees_pct |-> in.fees_pct,
         periods |-> n,
         rate_num |-> r[1],
         rate_den |-> r[2],
         pmt |-> p[1] \div p[2],
         pmt_exact |-> (p[1] % p[2] = 0),
         scale |-> scale]

\* df.index of both frames
Index(t) == 0 .. (t.periods - 1)

\* opening_principal * self._period_interest_rate
Interest(t, amount) == (amount * t.rate_num) \div t.rate_den

(***************************************************************************)
(* get_org_cfs: the original schedule.                                     *)
(***************************************************************************)
\* The npf.ipmt / npf.ppmt columns of lines 303-312, as the sequence of
\* <<interest, principal, balance left after the payment>> for the periods
\* 1..n: ipmt is the rate times the balance left after n - 1 payments of pmt.
RECURSIVE npf_schedule(_, _)
npf_schedule(t, n) ==
    IF n = 0 THEN <<>>
    ELSE LET before == npf_schedule(t, n - 1)
             bal == IF n = 1 THEN t.loan_amt ELSE before[n - 1][3]
             i == Interest(t, bal)
         IN  Append(before, <<i, t.pmt - i, bal + i - t.pmt>>)

\* df['principal_pmt'].cumsum() up to index i
RECURSIVE CumPrincipal(_, _)
CumPrincipal(sched, i) ==
    IF i < 0 THEN 0 ELSE CumPrincipal(sched, i - 1) + sched[i + 1][2]

\* a plausible slip of get_org_cfs: line 324 (additional_pmt = 0) left out,
\* so that the column of lines 317-320 (self.addl_pmts reindexed on df.index,
\* missing filled with 0) stays in the original schedule
get_org_cfs_keeps_addl(t, addl) ==
    LET sched == npf_schedule(t, t.periods)
    IN  [i \in Index(t) |->
            [period |-> i + 1,
             opening_principal |->
                IF i = 0 THEN t.loan_amt
                ELSE t.loan_amt - CumPrincipal(sched, i - 1),
             opening_accrued_interest |-> 0,
             current_period_interest |-> sched[i + 1][1],
             interest_pmt |-> sched[i + 1][1],
             principal_pmt |-> sched[i + 1][2],
             additional_pmt |-> Get(addl, i),
             total_pmt |-> sched[i + 1][1] + sched[i + 1][2] + Get(addl, i),
             closing_principal |-> t.loan_amt - CumPrincipal(sched, i)]]

\* Loan.get_org_cfs, self.addl_pmts passed as addl: the additional_pmt column
\* built from addl at lines 317-320 is overwritten with 0 at line 324
get_org_cfs(t, addl) ==
    LET sched == npf_schedule(t, t.periods)
    IN  [i \in Index(t) |->
            [period |-> i + 1,
             opening_principal |->
                IF i = 0 THEN t.loan_amt
                ELSE t.loan_amt - CumPrincipal(sched, i - 1),
             opening_accrued_interest |-> 0,
             current_period_interest |-> sched[i + 1][1],
             interest_pmt |-> sched[i + 1][1],
             principal_pmt |-> sched[i + 1][2],
             additional_pmt |-> 0,
             total_pmt |-> sched[i + 1][1] + sched[i + 1][2] + 0,
             closing_principal |-> t.loan_amt - CumPrincipal(sched, i)]]

\* the annuity payment and the scheduled interest are whole numbers of ticks
ExactTerms(t) ==
    /\ t.loan_amt > 0
    /\ t.periods > 0
    /\ t.pmt_exact
    /\ \A i \in Index(t) :
         (get_org_cfs(t, EmptyDict)[i].opening_principal * t.rate_num)
             % t.rate_den = 0

\* the loans explored, as constructed objects' fixed attributes
LoanTerms == {t \in {attributes(in) : in \in LoanInputs} : ExactTerms(t)}

(***************************************************************************)
(* _get_mod_cfs: the waterfall over self.updated_cfs.                      *)
(***************************************************************************)
\* a plausible slip of line 389: the payment is not capped at the amount owed
total_pmt_uncapped(t, row, cl_p, cl_ai) ==
    row.interest_pmt + row.principal_pmt + row.additional_pmt

\* a plausible slip of lines 393-395: the cap leaves out the interest owed
total_pmt_capped_at_principal(t, row, cl_p, cl_ai) ==
    Min(row.interest_pmt + row.principal_pmt + row.additional_pmt, cl_p)

\* a plausible slip of line 392: the additional payment is taken off the
\* scheduled payment
total_pmt_less_additional(t, row, cl_p, cl_ai) ==
    Min(row.interest_pmt + row.principal_pmt - row.additional_pmt,
        cl_p + cl_ai + Interest(t, cl_p))

\* a plausible slip of lines 390-392: the scheduled principal is left out of
\* the payment
total_pmt_without_principal(t, row, cl_p, cl_ai) ==
    Min(row.interest_pmt + row.additional_pmt,
        cl_p + cl_ai + Interest(t, cl_p))

\* a plausible slip of lines 390-392: the scheduled interest is left out of
\* the payment
total_pmt_principal_only(t, row, cl_p, cl_ai) ==
    Min(row.principal_pmt + row.additional_pmt,
        cl_p + cl_ai + Interest(t, cl_p))

\* row.loc['total_pmt'] of lines 389-396, the row opening at cl_p with the
\* accrued interest cl_ai
total_pmt(t, row, cl_p, cl_ai) ==
    Min(row.interest_pmt + row.principal_pmt + row.additional_pmt,
        cl_p + cl_ai + Interest(t, cl_p))

\* a plausible slip of lines 405-412: the balance is closed with the payment
\* asked for (scheduled plus additional) instead of the capped total_pmt, and
\* without the floor at 0
mod_row_uncapped_close(t, row, cl_p, cl_ai) ==
    LET opening_principal == cl_p
        opening_accrued_interest == cl_ai
        current_period_interest == Interest(t, opening_principal)
        total == total_pmt(t, row, cl_p, cl_ai)
        closing_accrued_interest ==
            Max(0, opening_accrued_interest + current_period_interest - total)
        closing_principal ==
            opening_principal + opening_accrued_interest
                + current_period_interest
                - (row.interest_pmt + row.principal_pmt + row.additional_pmt)
    IN  [row |-> [row EXCEPT
                    !.opening_principal = opening_principal,
                    !.opening_accrued_interest = opening_accrued_interest,
                    !.current_period_interest = current_period_interest,
                    !.total_pmt = total,
                    !.closing_principal = closing_principal],
         closing_accrued_interest |-> closing_accrued_interest]

\* One pass of the loop body (lines 384-413) over `row`, with the carried
\* cl_p and cl_ai: the row as written back at line 414, and the
\* closing_accrued_interest, which is no column of the frame.
mod_row(t, row, cl_p, cl_ai) ==
    LET opening_principal == cl_p
        opening_accrued_interest == cl_ai
        current_period_interest == Interest(t, opening_principal)
        total == total_pmt(t, row, cl_p, cl_ai)
        closing_accrued_interest ==
            Max(0, opening_accrued_interest + current_period_interest - total)
        closing_principal ==
            Max(0, opening_principal + opening_accrued_interest
                       + current_period_interest - total)
    IN  [row |-> [row EXCEPT
                    !.opening_principal = opening_principal,
                    !.opening_accrued_interest = opening_accrued_interest,
                    !.current_period_interest = current_period_interest,
                    !.total_pmt = total,
                    !.closing_principal = closing_principal],
         closing_accrued_interest |-> closing_accrued_interest]

\* for idx, row in df.iterrows(), from index idx on (lines 383-414)
RECURSIVE iterrows(_, _, _, _, _)
iterrows(t, df, idx, cl_p, cl_ai) ==
    IF idx \notin DOMAIN df THEN df
    ELSE LET r == mod_row(t, df[idx], cl_p, cl_ai)
         IN  iterrows(t, [df EXCEPT ![idx] = r.row], idx + 1,
                      r.row.closing_principal, r.closing_accrued_interest)

\* df['additional_pmt'] = pd.Series({k-1: v ...}, index=df.index).fillna(0)
set_additional_pmt(df, addl) ==
    [i \in DOMAIN df |-> [df[i] EXCEPT !.additional_pmt = Get(addl, i + 1)]]

\* Loan._get_mod_cfs: the value it assigns to self.updated_cfs and returns
get_mod_cfs(self) ==
    IF self.fully_prepaid = 1 THEN self.updated_cfs
    ELSE IF DOMAIN self.addl_pmts # {}
         THEN iterrows(self.terms,
                       set_additional_pmt(self.updated_cfs, self.addl_pmts),
                       0, self.terms.loan_amt, 0)
         ELSE get_org_cfs(self.terms, self.addl_pmts)

(***************************************************************************)
(* Metrics.                                                                *)
(***************************************************************************)
RECURSIVE SumOver(_, _, _)
\* sum of f[i] for i in 0..n
SumOver(f, n, acc) == IF n < 0 THEN acc ELSE SumOver(f, n - 1, acc + f[n])

\* Loan._wal as the fraction <<numerator, denominator>> (not reduced):
\* sum((opening - closing) * period) * period_to_months / loan_amt
wal(t, df) ==
    LET w == [i \in DOMAIN df |->
                (df[i].opening_principal - df[i].closing_principal)
                    * df[i].period]
    IN  <<SumOver(w, t.periods - 1, 0) * period_to_months[t.freq][1],
          period_to_months[t.freq][2] * t.loan_amt>>

\* interest_rate + fees_pct / (wal / 12), kept as its three operands
apr(t, w) == [interest_rate |-> t.interest_rate,
              fees_pct |-> t.fees_pct, wal |-> w]

org_wal(self) == wal(self.terms, get_org_cfs(self.terms, self.addl_pmts))

org_apr(self) == apr(self.terms, org_wal(self))

mod_wal(self) == wal(self.terms, self.updated_cfs)

mod_apr(self) == apr(self.terms, mod_wal(self))

\* the result of .min() over no row
NaN == 0 - 1

\* Loan._maturity: _cfs[_cfs.closing_principal <= 1e-9].period.min(); an
\* amount of at most 1e-9 is less than one tick, that is 0 ticks
maturity(df) ==
    LET hit == {df[i].period : i \in {j \in DOMAIN df : df[j].closing_principal <= 0}}
    IN  IF hit = {} THEN NaN
        ELSE CHOOSE p \in hit : \A q \in hit : p <= q

org_maturity_period(self) == self.terms.periods

mod_maturity_period(self) == maturity(self.updated_cfs)

(***************************************************************************)
(* The loan object and its methods.  A method yields the object after the  *)
(* call and the exception raised ("none" when it returns).                 *)
(***************************************************************************)
\* Loan.__init__ (lines 188-211) for inputs that pass _check_inputs
construct(t, addl) ==
    LET s0 == [terms |-> t, addl_pmts |-> addl, fully_prepaid |-> 0,
               original_cfs |-> get_org_cfs(t, addl),
               updated_cfs |-> get_org_cfs(t, addl)]
    IN  [s0 EXCEPT !.updated_cfs = get_mod_cfs(s0)]

\* a plausible slip of line 367: the update's amount replaces the stored one
merge_addl_pmt_overwrites(self, addl_pmt_update) ==
    [k \in (DOMAIN self.addl_pmts) \cup (DOMAIN addl_pmt_update) |->
        IF k \in DOMAIN addl_pmt_update THEN addl_pmt_update[k]
        ELSE self.addl_pmts[k]]

\* Loan._merge_addl_pmt
merge_addl_pmt(self, addl_pmt_update) ==
    [k \in (DOMAIN self.addl_pmts) \cup (DOMAIN addl_pmt_update) |->
        Get(self.addl_pmts, k) + Get(addl_pmt_update, k)]

\* a plausible slip of update_addl_pmts: the fully_prepaid check of line 512
\* left out
update_addl_pmts_unchecked(self, addl_pmt_update) ==
    LET s1 == [self EXCEPT !.addl_pmts =
                   IF DOMAIN self.addl_pmts # {}
                   THEN merge_addl_pmt(self, addl_pmt_update)
                   ELSE addl_pmt_update]
    IN  [self |-> [s1 EXCEPT !.updated_cfs = get_mod_cfs(s1)],
         raised |-> "none"]

\* a plausible slip of update_addl_pmts: the schedule is updated in place
\* from its stored rows instead of being replayed from the first period
\* (only the additional_pmt and total_pmt columns are touched)
update_addl_pmts_in_place(self, addl_pmt_update) ==
    IF self.fully_prepaid = 1
    THEN [self |-> self, raised |-> "PrepaymentException"]
    ELSE LET m == IF DOMAIN self.addl_pmts # {}
                  THEN merge_addl_pmt(self, addl_pmt_update)
                  ELSE addl_pmt_update
             df == self.updated_cfs
         IN  [self |-> [self EXCEPT
                  !.addl_pmts = m,
                  !.updated_cfs =
                      [i \in DOMAIN df |-> [df[i] EXCEPT
                          !.additional_pmt = Get(m, i + 1),
                          !.total_pmt = df[i].interest_pmt
                              + df[i].principal_pmt + Get(m, i + 1)]]],
              raised |-> "none"]

\* a plausible slip of lines 517-522: the update is stored in place of the
\* map instead of being merged into it
update_addl_pmts_replaces(self, addl_pmt_update) ==
    IF self.fully_prepaid = 1
    THEN [self |-> self, raised |-> "PrepaymentException"]
    ELSE LET s1 == [self EXCEPT !.addl_pmts = addl_pmt_update]
         IN  [self |-> [s1 EXCEPT !.updated_cfs = get_mod_cfs(s1)],
              raised |-> "none"]

\* Loan.update_addl_pmts
update_addl_pmts(self, addl_pmt_update) ==
    IF self.fully_prepaid = 1
    THEN [self |-> self, raised |-> "PrepaymentException"]
    ELSE LET s1 == [self EXCEPT !.addl_pmts =
                        IF DOMAIN self.addl_pmts # {}
                        THEN merge_addl_pmt(self, addl_pmt_update)
                        ELSE addl_pmt_update]
         IN  [self |-> [s1 EXCEPT !.updated_cfs = get_mod_cfs(s1)],
              raised |-> "none"]

\* a plausible slip of line 494: the payoff amount is the balance before
\* the period (its opening_principal) instead of the closing_principal
prepay_fully_balance_before(self, period) ==
    IF self.fully_prepaid = 1
    THEN [self |-> self, raised |-> "PrepaymentException"]
    ELSE IF (period - 1) \notin DOMAIN self.updated_cfs
    THEN [self |-> self, raised |-> "KeyError"]
    ELSE LET df == self.updated_cfs
             prepay_amt == df[period - 1].opening_principal
             s1 == [self EXCEPT !.addl_pmts =
                        merge_addl_pmt(self, (period :> prepay_amt))]
             s2 == [s1 EXCEPT !.updated_cfs = get_mod_cfs(s1)]
         IN  [self |-> [s2 EXCEPT !.fully_prepaid = 1], raised |-> "none"]

\* a plausible slip of prepay_fully: the flag is set before the schedule is
\* recomputed, so that _get_mod_cfs returns the stored schedule
prepay_fully_flag_first(self, period) ==
    IF self.fully_prepaid = 1
    THEN [self |-> self, raised |-> "PrepaymentException"]
    ELSE IF (period - 1) \notin DOMAIN self.updated_cfs
    THEN [self |-> self, raised |-> "KeyError"]
    ELSE LET df == self.updated_cfs
             prepay_amt == df[period - 1].closing_principal
             s1 == [self EXCEPT !.addl_pmts =
                        merge_addl_pmt(self, (period :> prepay_amt)),
                    !.fully_prepaid = 1]
         IN  [self |-> [s1 EXCEPT !.updated_cfs = get_mod_cfs(s1)],
              raised |-> "none"]

\* a plausible slip of prepay_fully: the flag is set before the row of the
\* period is looked up
prepay_fully_marks_before_lookup(self, period) ==
    IF self.fully_prepaid = 1
    THEN [self |-> self, raised |-> "PrepaymentException"]
    ELSE IF (period - 1) \notin DOMAIN self.updated_cfs
    THEN [self |-> [self EXCEPT !.fully_prepaid = 1], raised |-> "KeyError"]
    ELSE LET df == self.updated_cfs
             prepay_amt == df[period - 1].closing_principal
             s1 == [self EXCEPT !.addl_pmts =
                        merge_addl_pmt(self, (period :> prepay_amt))]
             s2 == [s1 EXCEPT !.updated_cfs = get_mod_cfs(s1)]
         IN  [self |-> [s2 EXCEPT !.fully_prepaid = 1], raised |-> "none"]

\* Loan.prepay_fully; df.loc[period-1, ...] raises KeyError for a label that
\* is not in df.index
prepay_fully(self, period) ==
    IF self.fully_prepaid = 1
    THEN [self |-> self, raised |-> "PrepaymentException"]
    ELSE IF (period - 1) \notin DOMAIN self.updated_cfs
    THEN [self |-> self, raised |-> "KeyError"]
    ELSE LET df == self.updated_cfs
             prepay_amt == df[period - 1].closing_principal
             s1 == [self EXCEPT !.addl_pmts =
                        merge_addl_pmt(self, (period :> prepay_amt))]
             s2 == [s1 EXCEPT !.updated_cfs = get_mod_cfs(s1)]
         IN  [self |-> [s2 EXCEPT !.fully_prepaid = 1], raised |-> "none"]

\* a plausible slip of reset_addl_pmts: line 537 (fully_prepaid = 0) left
\* out
reset_addl_pmts_keeps_flag(self) ==
    LET s1 == [self EXCEPT !.addl_pmts = EmptyDict]
    IN  [self |-> [s1 EXCEPT !.updated_cfs = get_mod_cfs(s1)],
         raised |-> "none"]

\* Loan.reset_addl_pmts
reset_addl_pmts(self) ==
    LET s1 == [self EXCEPT !.addl_pmts = EmptyDict, !.fully_prepaid = 0]
    IN  [self |-> [s1 EXCEPT !.updated_cfs = get_mod_cfs(s1)],
         raised |-> "none"]

(***************************************************************************)
(* Construction from the caller's inputs: _check_inputs, then __init__.    *)
(* An input record holds loan_amt as a whole number of units of            *)
(* 10^unit_exp currency (the money of the schedules is then counted in     *)
(* that unit), interest_rate as rate_num / rate_den, fees_pct in           *)
(* hundredths, and under `types` the Python type of each argument.         *)
(***************************************************************************)
\* a plausible slip of lines 173-179: channel declared like segment, with no
\* enumerated values
valid_inputs_any_channel ==
    << [atr |-> "loan_amt", type |-> {"float", "int"}, ranged |-> TRUE,
        vals |-> {}],
       [atr |-> "interest_rate", type |-> {"float", "int"}, ranged |-> TRUE,
        vals |-> {}],
       [atr |-> "term_in_months", type |-> {"float", "int"}, ranged |-> TRUE,
        vals |-> {}],
       [atr |-> "loan_dt", type |-> {"datetime", "date"}, ranged |-> FALSE,
        vals |-> {}],
       [atr |-> "freq", type |-> {"str"}, ranged |-> FALSE,
        vals |-> {"W", "2W", "M", "BM", "Q", "H", "Y"}],
       [atr |-> "fees_pct", type |-> {"float", "int"}, ranged |-> TRUE,
        vals |-> {}],
       [atr |-> "addl_pmts", type |-> {"dict"}, ranged |-> FALSE,
        vals |-> {}],
       [atr |-> "segment", type |-> {"str"}, ranged |-> FALSE, vals |-> {}],
       [atr |-> "channel", type |-> {"str"}, ranged |-> FALSE,
        vals |-> {}] >>

\* Loan.valid_inputs in the order _check_inputs walks its keys: the accepted
\* types, whether min and max are given (they are given together), and vals
valid_inputs ==
    << [atr |-> "loan_amt", type |-> {"float", "int"}, ranged |-> TRUE,
        vals |-> {}],
       [atr |-> "interest_rate", type |-> {"float", "int"}, ranged |-> TRUE,
        vals |-> {}],
       [atr |-> "term_in_months", type |-> {"float", "int"}, ranged |-> TRUE,
        vals |-> {}],
       [atr |-> "loan_dt", type |-> {"datetime", "date"}, ranged |-> FALSE,
        vals |-> {}],
       [atr |-> "freq", type |-> {"str"}, ranged |-> FALSE,
        vals |-> {"W", "2W", "M", "BM", "Q", "H", "Y"}],
       [atr |-> "fees_pct", type |-> {"float", "int"}, ranged |-> TRUE,
        vals |-> {}],
       [atr |-> "addl_pmts", type |-> {"dict"}, ranged |-> FALSE,
        vals |-> {}],
       [atr |-> "segment", type |-> {"str"}, ranged |-> FALSE, vals |-> {}],
       [atr |-> "channel", type |-> {"str"}, ranged |-> FALSE,
        vals |-> {"free", "paid"}] >>

\* loan_amt > 10e9 (the 'max' of loan_amt), for loan_amt * 10^unit_exp
AboveMax(in) ==
    IF in.unit_exp >= 9
    THEN in.loan_amt * Pow(10, in.unit_exp - 9) > 10
    ELSE LET d == Pow(10, 9 - in.unit_exp)
         IN  \/ in.loan_amt \div d > 10
             \/ (in.loan_amt \div d = 10 /\ in.loan_amt % d > 0)

\* (user_val < min) | (user_val > max) of lines 250-252
OutOfRange(in, atr) ==
    CASE atr = "loan_amt" -> in.loan_amt < 0 \/ AboveMax(in)
      [] atr = "interest_rate" ->
            in.rate_num < 0 \/ in.rate_num > in.rate_den
      [] atr = "term_in_months" ->
            in.term_in_months < 0 \/ in.term_in_months > 1200
      [] atr = "fees_pct" -> in.fees_pct < 0 \/ in.fees_pct > 100

\* the body of the loop of _check_inputs (lines 245-270) for one attribute:
\* the exception it raises, or "none"
check_attr(in, v) ==
    IF in.types[v.atr] \notin v.type THEN "TypeError"
    ELSE IF v.ranged
         THEN (IF OutOfRange(in, v.atr) THEN "ValueError" ELSE "none")
         ELSE IF v.vals # {}
              THEN (IF in[v.atr] \notin v.vals THEN "ValueError" ELSE "none")
              ELSE "none"

\* Loan._check_inputs: the exception of the first attribute that fails
check_inputs(in) ==
    LET bad == {i \in DOMAIN valid_inputs :
                    check_attr(in, valid_inputs[i]) # "none"}
    IN  IF bad = {} THEN "none"
        ELSE check_attr(in, valid_inputs[CHOOSE i \in bad :
                                             \A j \in bad : i <= j])

\* no object: the constructor raised
NoLoan == [terms |-> <<>>, addl_pmts |-> EmptyDict, fully_prepaid |-> 0,
           original_cfs |-> <<>>, updated_cfs |-> <<>>]

\* Loan(...): _check_inputs at line 197 comes before anything is derived;
\* segment and channel are stored and never read again
new(in, addl) ==
    IF check_inputs(in) # "none"
    THEN [self |-> NoLoan, raised |-> check_inputs(in)]
    ELSE [self |-> construct(attributes(in) @@
                                 [unit_exp |-> in.unit_exp,
                                  segment |-> in.segment,
                                  channel |-> in.channel], addl),
          raised |-> "none"]

(***************************************************************************)
(* Inputs.                                                                 *)
(***************************************************************************)
\* amounts passed to the constructor, in ticks: 0 .. MaxAmt currency units
\* and -2 (the code checks no amount; with -2 a payment can fall short of
\* the interest of the period)
Amounts(t) == {a * t.scale : a \in {0 - 2} \cup (0 .. MaxAmt)}

\* amounts passed to update_addl_pmts, in ticks: 0 .. MaxAmt currency units
UpdateAmounts(t) == {a * t.scale : a \in 0 .. MaxAmt}

\* period arguments a caller passes: 0 and periods + 1 are outside the
\* schedule
PeriodArgs(t) == 0 .. (t.periods + 1)

\* dicts over at most n of the keys
Dicts(keys, vals, n) ==
    UNION {[S -> vals] : S \in {X \in SUBSET keys : Cardinality(X) <= n}}

\* addl_pmts of the constructor (None is stored as {}, line 194): {}, every
\* one-key dict, and the two-key dicts that give periods 1 and 2 the same
\* amount
InitArgs(t) ==
    Dicts(PeriodArgs(t), Amounts(t), 1)
        \cup {[k \in {1, 2} |-> a] : a \in Amounts(t)}

\* addl_pmt_update of update_addl_pmts: {}, every one-key dict over the
\* periods from 1 on, and the two-key dicts that give periods 1 and 2 the
\* same amount
UpdateArgs(t) ==
    Dicts(PeriodArgs(t) \ {0}, UpdateAmounts(t), 1)
        \cup {[k \in {1, 2} |-> a] : a \in UpdateAmounts(t)}

\* the exploration keeps the map within MaxKeys keys and the amounts above
InBounds(t, d) ==
    /\ Cardinality(DOMAIN d) <= MaxKeys
    /\ \A k \in DOMAIN d : d[k] \in Amounts(t)

\* the Python types of well-typed constructor arguments
WellTyped ==
    [atr \in {"loan_amt", "interest_rate", "term_in_months", "fees_pct"}
        |-> "float"]
    @@ [atr \in {"freq", "segment", "channel"} |-> "str"]
    @@ ("loan_dt" :> "datetime") @@ ("addl_pmts" :> "dict")

\* a 2-period annual loan of 3 at 100 %, through the free channel
AnnualLoan ==
    [loan_amt |-> 3, unit_exp |-> 0, rate_num |-> 1, rate_den |-> 1,
     term_in_months |-> 24, freq |-> "Y", fees_pct |-> 0, segment |-> "c",
     channel |-> "free", types |-> WellTyped]

\* The constructor calls explored: the annual loan through each channel and
\* through one that is not listed; with a principal of 0, of -1, of 10e9
\* (semi-annual, 2 periods), of 11e9 and of 20e9; with an unknown frequency;
\* with a fee above 100 %; with the principal given as a string.
NewInputs ==
    { AnnualLoan,
      [AnnualLoan EXCEPT !.channel = "paid"],
      [AnnualLoan EXCEPT !.channel = "web"],
      [AnnualLoan EXCEPT !.loan_amt = 0],
      [AnnualLoan EXCEPT !.loan_amt = 0, !.channel = "web"],
      [AnnualLoan EXCEPT !.loan_amt = 0 - 1],
      [AnnualLoan EXCEPT !.loan_amt = 10, !.unit_exp = 9,
                         !.term_in_months = 7, !.freq = "H"],
      [AnnualLoan EXCEPT !.loan_amt = 11, !.unit_exp = 9],
      [AnnualLoan EXCEPT !.loan_amt = 20, !.unit_exp = 9],
      [AnnualLoan EXCEPT !.freq = "MM"],
      [AnnualLoan EXCEPT !.fees_pct = 101],
      [AnnualLoan EXCEPT !.types = [WellTyped EXCEPT !["loan_amt"] = "str"]] }

\* addl_pmts of these calls
NewArgs(in) ==
    IF check_inputs(in) = "none" THEN InitArgs(attributes(in))
    ELSE {EmptyDict}

(***************************************************************************)
(* The state machine.                                                      *)
(***************************************************************************)
\* the loan object assembled from its fields
Self == [terms |-> terms, addl_pmts |-> addl_pmts,
         fully_prepaid |-> fully_prepaid, original_cfs |-> original_cfs,
         updated_cfs |-> updated_cfs]

\* the fields after a call with result res
Becomes(res) ==
    /\ terms' = res.self.terms
    /\ addl_pmts' = res.self.addl_pmts
    /\ fully_prepaid' = res.self.fully_prepaid
    /\ original_cfs' = res.self.original_cfs
    /\ updated_cfs' = res.self.updated_cfs
    /\ raised' = res.raised

Init ==
    /\ terms \in LoanTerms
    /\ \E addl \in InitArgs(terms) :
         LET s == construct(terms, addl)
         IN  /\ addl_pmts = s.addl_pmts
             /\ fully_prepaid = s.fully_prepaid
             /\ original_cfs = s.original_cfs
             /\ updated_cfs = s.updated_cfs
    /\ lastCall = "__init__"
    /\ arg = NoArg
    /\ raised = "none"
    /\ fresh = construct(terms, EmptyDict)
    /\ fresh_raised = "none"
    /\ was_reset = FALSE

\* what the call does to the fresh loan: nothing before the first reset
FreshBecomes(fres) ==
    IF was_reset
    THEN fresh' = fres.self /\ fresh_raised' = fres.raised
    ELSE UNCHANGED <<fresh, fresh_raised>>

\* l1.update_addl_pmts(u); the argument is read only past the prepaid check
UpdateAddlPmts(u) ==
    \E res \in {update_addl_pmts(Self, u)} :
    \E fres \in {IF was_reset THEN update_addl_pmts(fresh, u)
                 ELSE [self |-> fresh, raised |-> fresh_raised]} :
        /\ res.raised = "none" => InBounds(terms, res.self.addl_pmts)
        /\ Becomes(res)
        /\ lastCall' = "update_addl_pmts"
        /\ arg' = IF fully_prepaid = 1 THEN NoArg
                  ELSE [kind |-> "dict", addl_pmt_update |-> u]
        /\ FreshBecomes(fres)
        /\ UNCHANGED was_reset

\* l1.prepay_fully(p)
PrepayFully(p) ==
    \E res \in {prepay_fully(Self, p)} :
    \E fres \in {IF was_reset THEN prepay_fully(fresh, p)
                 ELSE [self |-> fresh, raised |-> fresh_raised]} :
        /\ Becomes(res)
        /\ lastCall' = "prepay_fully"
        /\ arg' = IF fully_prepaid = 1 THEN NoArg
                  ELSE [kind |-> "int", period |-> p]
        /\ FreshBecomes(fres)
        /\ UNCHANGED was_reset

\* l1.reset_addl_pmts()
ResetAddlPmts ==
    /\ \E res \in {reset_addl_pmts(Self)} : Becomes(res)
    /\ lastCall' = "reset_addl_pmts"
    /\ arg' = NoArg
    /\ fresh' = construct(terms, EmptyDict)
    /\ fresh_raised' = "none"
    /\ was_reset' = TRUE

Next ==
    \/ \E u \in UpdateArgs(terms) : UpdateAddlPmts(u)
    \/ \E p \in PeriodArgs(terms) : PrepayFully(p)
    \/ ResetAddlPmts

Spec == Init /\ [][Next]_vars

(***************************************************************************)
(* The same machine from a constructor call on the caller's inputs: the    *)
(* first state is the one the call Loan(...) leaves, with the loan or with *)
(* the exception of _check_inputs and no loan.                             *)
(***************************************************************************)
InitNew ==
    \E in \in NewInputs :
    \E addl \in NewArgs(in) :
    \E res \in {new(in, addl)} :
        /\ terms = res.self.terms
        /\ addl_pmts = res.self.addl_pmts
        /\ fully_prepaid = res.self.fully_prepaid
        /\ original_cfs = res.self.original_cfs
        /\ updated_cfs = res.self.updated_cfs
        /\ lastCall = "__init__"
        /\ arg = [kind |-> "Loan", inputs |-> in, addl_pmts |-> addl]
        /\ raised = res.raised
        /\ fresh = IF res.raised = "none"
                   THEN construct(res.self.terms, EmptyDict)
                   ELSE NoLoan
        /\ fresh_raised = res.raised
        /\ was_reset = FALSE

\* there is a loan to call methods on
Constructed == ~(lastCall = "__init__" /\ raised # "none")

NextNew ==
    \/ Constructed /\ \E u \in UpdateArgs(terms) : UpdateAddlPmts(u)
    \/ Constructed /\ \E p \in PeriodArgs(terms) : PrepayFully(p)
    \/ Constructed /\ ResetAddlPmts

SpecNew == InitNew /\ [][NextNew]_vars

(***************************************************************************)
(* Sanity of the exact arithmetic: no division of the model rounds.        *)
(***************************************************************************)
ExactInterest ==
    \A i \in DOMAIN updated_cfs :
        (updated_cfs[i].opening_principal * terms.rate_num) % terms.rate_den = 0

TypeOK ==
    /\ terms \in LoanTerms
    /\ fully_prepaid \in {0, 1}
    /\ DOMAIN updated_cfs = Index(terms)
    /\ DOMAIN original_cfs = Index(terms)
    /\ raised \in {"none", "PrepaymentException", "KeyError"}
    /\ lastCall \in {"__init__", "update_addl_pmts", "prepay_fully",
                     "reset_addl_pmts"}

(***************************************************************************)
(* Properties.                                                             *)
(***************************************************************************)
\* every amount of the map is non-negative
NonNegative(d) == \A k \in DOMAIN d : d[k] >= 0

\* the row of schedule df for period p
RowOfPeriod(df, p) == df[CHOOSE i \in DOMAIN df : df[i].period = p]

\* the last call was `name` and returned
Returned(name) == lastCall = name /\ raised = "none"

\* C1: once the loan is fully prepaid (prepay_fully has succeeded and
\* reset_addl_pmts has not been called since), every call of
\* update_addl_pmts or prepay_fully raises PrepaymentException and leaves the
\* map, the modified schedule and the flag as they were.
C1_PrepaidIsTerminal ==
    [][(fully_prepaid = 1
            /\ lastCall' \in {"update_addl_pmts", "prepay_fully"})
        => /\ raised' = "PrepaymentException"
           /\ addl_pmts' = addl_pmts
           /\ updated_cfs' = updated_cfs
           /\ fully_prepaid' = 1]_vars

\* a fully prepaid loan on which update_addl_pmts has just failed
C1_Witness ==
    /\ fully_prepaid = 1
    /\ lastCall = "update_addl_pmts"
    /\ raised = "PrepaymentException"

\* C2: reset_addl_pmts leaves the map empty, the flag 0 and the modified
\* schedule equal to the original one; and from the reset on, the loan and
\* the exception of each call are those of a freshly constructed loan with
\* the same terms and no additional payments given the same calls.
C2_ResetIsFresh ==
    /\ lastCall = "reset_addl_pmts"
         => /\ addl_pmts = EmptyDict
            /\ fully_prepaid = 0
            /\ updated_cfs = original_cfs
    /\ was_reset => (Self = fresh /\ raised = fresh_raised)

\* a loan that was reset and then fully prepaid again, its schedule changed
C2_Witness ==
    /\ was_reset
    /\ Returned("prepay_fully")
    /\ fully_prepaid = 1
    /\ updated_cfs # original_cfs

\* the balance immediately before period p in schedule df: the
\* closing_principal of period p - 1, the opening balance for the first period
BalanceBefore(df, p) ==
    IF p > 1 THEN RowOfPeriod(df, p - 1).closing_principal
    ELSE RowOfPeriod(df, p).opening_principal

\* the map m with amount a added to its entry for period p
WithAdded(m, p, a) ==
    [k \in (DOMAIN m) \cup {p} |-> Get(m, k) + (IF k = p THEN a ELSE 0)]

C4_PrepaidSchedule ==
    [][(lastCall' = "prepay_fully" /\ raised' = "none"
            /\ NonNegative(addl_pmts))
        => /\ fully_prepaid' = 1
           /\ \A i \in DOMAIN updated_cfs' :
                /\ updated_cfs'[i].period >= arg'.period
                     => updated_cfs'[i].closing_principal = 0
                /\ updated_cfs'[i].period > arg'.period
                     => updated_cfs'[i].total_pmt = 0
           /\ maturity(updated_cfs') # NaN
           /\ maturity(updated_cfs') <= arg'.period]_vars

\* prepay_fully(p) has returned while the map holds a positive amount for a
\* later period of the schedule
C4_Witness ==
    /\ Returned("prepay_fully")
    /\ NonNegative(addl_pmts)
    /\ \E k \in DOMAIN addl_pmts :
         k > arg.period /\ k <= terms.periods /\ addl_pmts[k] > 0

\* C5: no call changes original_cfs, and each of its rows has
\* additional_pmt 0 and total_pmt = interest_pmt + principal_pmt.
C5_OriginalUntouched ==
    [][/\ original_cfs' = original_cfs
       /\ \A i \in DOMAIN original_cfs :
            /\ original_cfs[i].additional_pmt = 0
            /\ original_cfs[i].total_pmt =
                  original_cfs[i].interest_pmt + original_cfs[i].principal_pmt]_vars

\* a loan constructed with a positive additional payment that changed its
\* modified schedule
C5_Witness ==
    /\ lastCall = "__init__"
    /\ \E k \in DOMAIN addl_pmts : addl_pmts[k] > 0
    /\ updated_cfs # original_cfs

\* C6: every row of the modified schedule has total_pmt at most the amount
\* owed (opening principal + opening accrued interest + current interest),
\* closing_principal = max(0, owed - total_pmt), and opens at the previous
\* row's closing_principal (the loan amount for the first row).
C6_RowInvariant ==
    \A i \in DOMAIN updated_cfs :
        LET r == updated_cfs[i]
            owed == r.opening_principal + r.opening_accrued_interest
                        + r.current_period_interest
        IN  /\ r.total_pmt <= owed
            /\ r.closing_principal = Max(0, owed - r.total_pmt)
            /\ r.opening_principal =
                  IF i = 0 THEN terms.loan_amt
                  ELSE updated_cfs[i - 1].closing_principal

\* an update has left a modified schedule with a row whose payment was
\* capped at the amount owed, below the scheduled plus additional payment
C6_Witness ==
    /\ Returned("update_addl_pmts")
    /\ \E i \in DOMAIN updated_cfs :
         /\ updated_cfs[i].total_pmt > 0
         /\ updated_cfs[i].additional_pmt > 0
         /\ updated_cfs[i].total_pmt <
               updated_cfs[i].interest_pmt + updated_cfs[i].principal_pmt
                   + updated_cfs[i].additional_pmt

\* The waterfall replayed from period 1 over the schedule org with the map m
\* (a missing period counts 0): the rows of periods 1..n with the accrued
\* interest each closes with.
RECURSIVE ReplayRows(_, _, _, _)
ReplayRows(t, org, m, n) ==
    IF n = 0 THEN <<>>
    ELSE LET before == ReplayRows(t, org, m, n - 1)
             opening == IF n = 1 THEN t.loan_amt
                        ELSE before[n - 1].row.closing_principal
             accrued == IF n = 1 THEN 0 ELSE before[n - 1].accrued
             interest == Interest(t, opening)
             owed == opening + accrued + interest
             src == RowOfPeriod(org, n)
             paid == Min(src.interest_pmt + src.principal_pmt + Get(m, n), owed)
         IN  Append(before,
                    [row |-> [period |-> n,
                              opening_principal |-> opening,
                              opening_accrued_interest |-> accrued,
                              current_period_interest |-> interest,
                              interest_pmt |-> src.interest_pmt,
                              principal_pmt |-> src.principal_pmt,
                              additional_pmt |-> Get(m, n),
                              total_pmt |-> paid,
                              closing_principal |-> Max(0, owed - paid)],
                     accrued |-> Max(0, accrued + interest - paid)])

Replay(t, org, m) ==
    LET rows == ReplayRows(t, org, m, t.periods)
    IN  [i \in Index(t) |-> rows[i + 1].row]

\* C7: the stored modified schedule is the waterfall replayed from period 1
\* over the original schedule with the current map, in Active and in
\* FullyPrepaid states (where the map is the one the prepayment was merged
\* into).
C7_ScheduleIsReplay == updated_cfs = Replay(terms, original_cfs, addl_pmts)

\* a second or later update has changed a schedule that differed from the
\* original one already: the map has two periods of the schedule with
\* positive amounts
C7_Witness ==
    /\ Returned("update_addl_pmts")
    /\ fully_prepaid = 0
    /\ Cardinality({k \in DOMAIN addl_pmts :
                        k <= terms.periods /\ addl_pmts[k] > 0}) >= 2
    /\ updated_cfs # original_cfs

\* C8: update_addl_pmts(U) on an Active loan with map M leaves the map with
\* the keys of M and U and, for each, the sum of its amounts in M and in U.
C8_MergeAdds ==
    [][(lastCall' = "update_addl_pmts" /\ raised' = "none")
        => LET U == arg'.addl_pmt_update
           IN  /\ DOMAIN addl_pmts' = (DOMAIN addl_pmts) \cup (DOMAIN U)
               /\ \A k \in DOMAIN addl_pmts' :
                    addl_pmts'[k] = Get(addl_pmts, k) + Get(U, k)]_vars

\* an update has added a non-zero amount to a period that held a non-zero
\* amount, next to a period the update did not name
C8_Witness ==
    /\ Returned("update_addl_pmts")
    /\ \E k \in DOMAIN arg.addl_pmt_update :
         /\ arg.addl_pmt_update[k] # 0
         /\ addl_pmts[k] # arg.addl_pmt_update[k]
    /\ \E k \in DOMAIN addl_pmts :
         k \notin DOMAIN arg.addl_pmt_update /\ addl_pmts[k] # 0

\* C9: when the map is empty or holds only zero amounts, the modified
\* schedule equals the original schedule row for row, mod_wal = org_wal and
\* mod_apr = org_apr.
C9_ZeroMapIsIdentity ==
    (\A k \in DOMAIN addl_pmts : addl_pmts[k] = 0)
        => /\ updated_cfs = original_cfs
           /\ mod_wal(Self) = org_wal(Self)
           /\ mod_apr(Self) = org_apr(Self)

\* an update has left a non-empty map of zero amounts for periods of the
\* schedule
C9_Witness ==
    /\ Returned("update_addl_pmts")
    /\ \E k \in DOMAIN addl_pmts : k \in 1 .. terms.periods
    /\ \A k \in DOMAIN addl_pmts : addl_pmts[k] = 0

\* the update dict {p: a} with a > 0 and p a period of the schedule
OnePositivePayment(t, u) ==
    /\ Cardinality(DOMAIN u) = 1
    /\ \A p \in DOMAIN u : p \in 1 .. t.periods /\ u[p] > 0

\* C10: update_addl_pmts({p: a}) with a > 0 and p a period of the schedule,
\* on an Active loan whose map holds no negative amount, leaves a modified
\* maturity period that is defined and not larger than before the call.
C10_MaturityMonotone ==
    [][(lastCall' = "update_addl_pmts" /\ raised' = "none"
            /\ NonNegative(addl_pmts)
            /\ OnePositivePayment(terms, arg'.addl_pmt_update))
        => /\ maturity(updated_cfs) # NaN
           /\ maturity(updated_cfs') # NaN
           /\ maturity(updated_cfs') <= maturity(updated_cfs)]_vars

\* a positive additional payment has brought the maturity before the
\* original one
C10_Witness ==
    /\ Returned("update_addl_pmts")
    /\ NonNegative(addl_pmts)
    /\ OnePositivePayment(terms, arg.addl_pmt_update)
    /\ mod_maturity_period(Self) # NaN
    /\ mod_maturity_period(Self) < org_maturity_period(Self)

\* C11: in every reachable state every key of the additional-payment map is
\* a period of the schedule (1 .. period count) and every amount is
\* non-negative.  The code checks neither: __init__ and update_addl_pmts
\* store the dict as given.
C11_MapWellFormed ==
    \A k \in DOMAIN addl_pmts :
        /\ k \in 1 .. terms.periods
        /\ addl_pmts[k] >= 0

\* the last call was the constructor, on inputs recorded in arg
Called == lastCall = "__init__" /\ arg.kind = "Loan"

\* the constructor left no loan and computed no schedule
Rejected(exc) ==
    raised = exc /\ original_cfs = <<>> /\ updated_cfs = <<>>

\* C12: construction with a principal (a number) outside the half-open range
\* (0, 1e10] raises ValueError before any schedule is computed and leaves no
\* loan; in particular a principal of exactly 0 is rejected.
C12_PrincipalInRange ==
    (/\ Called
     /\ arg.inputs.types["loan_amt"] \in {"float", "int"}
     /\ (arg.inputs.loan_amt <= 0 \/ AboveMax(arg.inputs)))
        => Rejected("ValueError")

\* a loan with a principal of 0 has been constructed, schedule and all
C12_Witness ==
    /\ Called
    /\ arg.inputs.loan_amt = 0
    /\ raised = "none"
    /\ DOMAIN updated_cfs = 0 .. (terms.periods - 1)
    /\ terms.periods > 0
    /\ \A i \in DOMAIN updated_cfs : updated_cfs[i].total_pmt = 0

\* the inputs pass _check_inputs when the channel is set aside
OtherwiseValid(in) == check_inputs([in EXCEPT !.channel = "free"]) = "none"

FreeTwin == [Self EXCEPT !.terms.channel = "free"]

C14_EmptyUpdateIsNoOp ==
    [][(/\ lastCall' = "update_addl_pmts"
        /\ fully_prepaid = 0
        /\ arg'.kind = "dict"
        /\ arg'.addl_pmt_update = EmptyDict)
          => /\ raised' = "none"
             /\ addl_pmts' = addl_pmts
             /\ updated_cfs' = updated_cfs
             /\ fully_prepaid' = 0]_vars

\* update_addl_pmts({}) has returned on a loan whose map holds a payment
\* that changes the schedule
C14_Witness ==
    /\ Returned("update_addl_pmts")
    /\ arg.kind = "dict"
    /\ arg.addl_pmt_update = EmptyDict
    /\ fully_prepaid = 0
    /\ \E k \in DOMAIN addl_pmts : addl_pmts[k] > 0
    /\ updated_cfs # original_cfs

\* C15: when no amount of the additional-payment map is negative, every
\* numeric value of every row of the modified schedule is non-negative,
\* after construction and after any sequence of update_addl_pmts,
\* prepay_fully and reset_addl_pmts calls.
C15_RowsNonNegative ==
    NonNegative(addl_pmts) =>
        \A i \in DOMAIN updated_cfs :
            LET row == updated_cfs[i]
            IN  /\ row.opening_principal >= 0
                /\ row.opening_accrued_interest >= 0
                /\ row.current_period_interest >= 0
                /\ row.interest_pmt >= 0
                /\ row.principal_pmt >= 0
                /\ row.additional_pmt >= 0
                /\ row.total_pmt >= 0
                /\ row.closing_principal >= 0

\* a prepaid loan whose payoff came before the last period: the rows after
\* it open at 0 and pay 0 although a scheduled payment is due
C15_Witness ==
    /\ Returned("prepay_fully")
    /\ NonNegative(addl_pmts)
    /\ \E i \in DOMAIN updated_cfs :
          /\ updated_cfs[i].opening_principal = 0
          /\ updated_cfs[i].total_pmt = 0
          /\ updated_cfs[i].interest_pmt + updated_cfs[i].principal_pmt > 0

\* C16: when no amount of the map is negative, the modified schedule's
\* closing_principal of each period is at most the original schedule's, the
\* modified maturity is defined and it is at most the original maturity.
C16_BalanceBelowOriginal ==
    NonNegative(addl_pmts) =>
        /\ \A i \in DOMAIN updated_cfs :
              updated_cfs[i].closing_principal
                  <= original_cfs[i].closing_principal
        /\ mod_maturity_period(Self) # NaN
        /\ mod_maturity_period(Self) <= org_maturity_period(Self)

\* additional payments through update_addl_pmts have brought a balance
\* below the original one and the maturity forward
C16_Witness ==
    /\ Returned("update_addl_pmts")
    /\ fully_prepaid = 0
    /\ NonNegative(addl_pmts)
    /\ \E i \in DOMAIN updated_cfs :
          /\ updated_cfs[i].closing_principal > 0
          /\ updated_cfs[i].closing_principal
                < original_cfs[i].closing_principal
    /\ mod_maturity_period(Self) # NaN
    /\ mod_maturity_period(Self) < org_maturity_period(Self)

\* C17: prepay_fully(period) on an Active loan with a period outside
\* 1 .. period count fails (KeyError) and changes nothing: map, schedules
\* and flag are as before the call, so that later calls act on the same loan.
C17_BadPeriodChangesNothing ==
    [][(/\ lastCall' = "prepay_fully"
        /\ fully_prepaid = 0
        /\ arg'.kind = "int"
        /\ arg'.period \notin 1 .. terms.periods)
          => /\ raised' = "KeyError"
             /\ UNCHANGED <<terms, addl_pmts, fully_prepaid, original_cfs,
                            updated_cfs>>]_vars

\* prepay_fully has failed on a period beyond the schedule of a loan that
\* holds additional payments and is still Active
C17_Witness ==
    /\ lastCall = "prepay_fully"
    /\ raised = "KeyError"
    /\ arg.kind = "int"
    /\ arg.period = terms.periods + 1
    /\ fully_prepaid = 0
    /\ \E k \in DOMAIN addl_pmts : addl_pmts[k] > 0

\* closing_accrued_interest of a stored row (lines 397-403; it is no column
\* of the frame)
ClosingAccrued(row) ==
    Max(0, row.opening_accrued_interest + row.current_period_interest
               - row.total_pmt)

\* C18: when no amount of the map is negative, no row of the modified
\* schedule carries accrued interest: opening and closing accrued interest
\* are 0 and total_pmt covers the interest of the period, so that the amount
\* owed in a period is the balance carried over plus the period's interest.
C18_NoAccruedInterest ==
    NonNegative(addl_pmts) =>
        \A i \in DOMAIN updated_cfs :
            LET row == updated_cfs[i]
            IN  /\ row.opening_accrued_interest = 0
                /\ ClosingAccrued(row) = 0
                /\ row.total_pmt >= row.current_period_interest
                /\ i > 0 =>
                      row.opening_principal + row.opening_accrued_interest
                          = updated_cfs[i - 1].closing_principal

\* a loan at a positive rate after an additional payment that leaves a
\* balance: the next period owes interest on that balance and pays it
C18_Witness ==
    /\ Returned("update_addl_pmts")
    /\ NonNegative(addl_pmts)
    /\ terms.rate_num > 0
    /\ \E i \in DOMAIN updated_cfs :
          /\ i > 0
          /\ updated_cfs[i - 1].additional_pmt > 0
          /\ updated_cfs[i - 1].closing_principal > 0
          /\ updated_cfs[i].current_period_interest > 0
          /\ updated_cfs[i].total_pmt >= updated_cfs[i].current_period_interest

====
